---------------------------- MODULE Spec2Model ----------------------------
(***************************************************************************)
(* Model of the product tracker: the crawler script (Scraper.py) and the   *)
(* dashboard script (app.py, in its two checked-in versions).              *)
(*                                                                         *)
(* Text is modelled as a sequence of tokens: a URL such as                 *)
(* ".../products/P1/" is <<"/products/", "P1", "/">>, so that lower(),     *)
(* rstrip('/') and the substring filters act on it as they do on the text. *)
(* A DataFrame is [cols, rows], rows being functions from column name to   *)
(* cell; a CSV file is absent, unreadable or a table.  Only the columns    *)
(* the comparison code reads (Title, Sale_Price, Regular_Price, Link) are  *)
(* carried; SKU, Availability and Date are written and never compared.     *)
(***************************************************************************)
EXTENDS Integers, Sequences, FiniteSets, TLC

VARIABLES
    pc,            \* position of the crawler script
    runs,          \* crawler processes started so far
    exitStatus,    \* exit status of the last crawler process (-1: none yet / running)
    attempt,       \* requests_get_with_retry: loop variable
    gets,          \* requests_get_with_retry: GET requests made by the current call
    sleeps,        \* requests_get_with_retry: time.sleep arguments of the current call
    ret,           \* requests_get_with_retry: "pending", "response" or "None"
    response,      \* body of the response returned by the current call
    sitemap_urls, sm_idx,
    product_urls, p_idx,
    results, errors,
    fetched,       \* URLs requested by the running crawler process
    served,        \* per sub-sitemap requested: whether it was returned, and its <loc> texts
    curAtStart,    \* nidhi_prices.csv as it was when the crawler process started
    scraperLog,    \* what the crawler's comparison logged
    reported,      \* the error list as logged at the end of the run
    curFile,       \* nidhi_prices.csv
    prevFile,      \* nidhi_prices_prev.csv
    app,           \* which checked-in dashboard script is deployed
    cache,         \* st.cache_data entries of load_data, per file
    view,          \* what the last dashboard script run displayed
    curAtSave      \* nidhi_prices.csv as it was at the last save-baseline click

crawlVars == <<pc, runs, exitStatus, attempt, gets, sleeps, ret, response,
               sitemap_urls, sm_idx, product_urls, p_idx, results, errors,
               fetched, served, curAtStart, scraperLog, reported, curFile>>
dashVars == <<prevFile, app, cache, view, curAtSave>>
vars == <<crawlVars, dashVars>>

----------------------------------------------------------------------------
(* Bounds *)

MaxRuns == 2        \* crawler runs in one behaviour of the whole system
MaxLocs == 3        \* <loc> entries of one product sitemap

(* Program constants *)

MAX_RETRIES == 3
RETRY_BACKOFF == 2

----------------------------------------------------------------------------
(* Text *)

Range(s) == {s[i] : i \in 1..Len(s)}

SeqsUpTo(S, n) == UNION {[1..k -> S] : k \in 0..n}

\* "needle in text" for a needle that is one token
Contains(text, needle) == needle \in Range(text)

LowerTok(t) ==
    CASE t = "P1" -> "p1"
      [] t = "P2" -> "p2"
      [] OTHER -> t

\* str.lower()
StrLower(s) == [i \in 1..Len(s) |-> LowerTok(s[i])]

\* str.rstrip('/')
RECURSIVE RStripSlash(_)
RStripSlash(s) ==
    IF s # <<>> /\ s[Len(s)] = "/"
    THEN RStripSlash(SubSeq(s, 1, Len(s) - 1))
    ELSE s

\* df['Link'].str.lower().str.rstrip('/')
NormLink(u) == RStripSlash(StrLower(u))

MAIN_SITEMAP_URL == <<"sitemap.xml">>
SM1 == <<"sitemap_products", "1">>
SM2 == <<"sitemap_products", "2">>
SMPages == <<"sitemap_pages", "1">>
Home == <<"/">>
U1 == <<"/products/", "p1">>
U1S == <<"/products/", "p1", "/">>
U1C == <<"/products/", "P1">>
U2 == <<"/products/", "p2">>

----------------------------------------------------------------------------
(* Prices *)

NaN == "nan"

\* float(x.replace('$','').replace('₹','')) and safe_float's float(...), in cents,
\* on the canonical price strings of the model
PriceCents(p) ==
    CASE p = "$0.00" -> 0
      [] p = "$8.00" -> 800
      [] p = "$10" -> 1000
      [] p = "$10.00" -> 1000
      [] p = "$15.00" -> 1500
      [] p = "$20.00" -> 2000
      [] p = "$1234.50" -> 123450

\* normalize_price on the text fragments of the model: the first match of
\* [$₹]?\d+(?:,\d{3})*(?:\.\d{2})? with the commas removed, "" without a match
normalize_price(text) ==
    CASE text = "$0.00" -> "$0.00"
      [] text = "$8.00" -> "$8.00"
      [] text = "$10" -> "$10"
      [] text = "$10.00" -> "$10.00"
      [] text = "$15.00" -> "$15.00"
      [] text = "$20.00" -> "$20.00"
      [] text = "Sale $8.00" -> "$8.00"
      [] text = "$1,234.50" -> "$1234.50"
      [] OTHER -> ""

\* prices_found of one container, after the filter of line 151 and set()
PricesFound(container) ==
    {normalize_price(container[i]) : i \in 1..Len(container)} \ {"", "$0.00"}

\* The (sale, regular) pairs one container can give: sorted() by float keeps
\* equal keys in the set's iteration order, which is not determined.
ContainerPrices(container) ==
    LET ps == PricesFound(container)
        lo == {p \in ps : \A q \in ps : PriceCents(p) <= PriceCents(q)}
        hi == {p \in ps : \A q \in ps : PriceCents(q) <= PriceCents(p)}
    IN IF Cardinality(ps) = 1 THEN {<<p, p>> : p \in ps}
       ELSE {<<a, b>> \in lo \X hi : a # b}

\* a scan that does not stop: the last container with a price decides
RECURSIVE scrape_prices_NoBreak(_)
scrape_prices_NoBreak(containers) ==
    IF containers = <<>> THEN {<<"", "">>}
    ELSE LET later == scrape_prices_NoBreak(Tail(containers))
         IN IF later # {<<"", "">>} THEN later
            ELSE IF PricesFound(Head(containers)) # {}
                 THEN ContainerPrices(Head(containers))
                 ELSE {<<"", "">>}

\* scrape_prices: the first container with a price decides
RECURSIVE scrape_prices(_)
scrape_prices(containers) ==
    IF containers = <<>> THEN {<<"", "">>}
    ELSE IF PricesFound(Head(containers)) # {}
         THEN ContainerPrices(Head(containers))
         ELSE scrape_prices(Tail(containers))

\* scrape_title, on a page whose selectors give the text page.title
scrape_title(page) == IF page.title # "" THEN page.title ELSE "No title found"

NoPage == [title |-> "", containers |-> <<>>]
Page8 == [title |-> "Ring", containers |-> <<<<"Sale $8.00", "$10.00">>>>]
Page10 == [title |-> "Ring", containers |-> <<<<"$10.00", "$10.00">>>>]
PageX == [title |-> "", containers |-> <<<<"Sold out">>, <<"$0.00">>>>]
Page15 == [title |-> "Ring",
           containers |-> <<<<"call us">>, <<"$20.00", "$20.00", "$0.00", "$15.00">>,
                            <<"$8.00">>>>]

----------------------------------------------------------------------------
(* DataFrames and CSV files *)

AllCols == {"Title", "Sale_Price", "Regular_Price", "Link"}
PriceCols == {"Sale_Price", "Regular_Price"}

EmptyDF == [cols |-> {}, rows |-> <<>>]

\* DataFrame.empty
IsEmpty(df) == df.cols = {} \/ df.rows = <<>>

Absent == [kind |-> "absent", cols |-> {}, rows |-> <<>>]
Unreadable == [kind |-> "unreadable", cols |-> {}, rows |-> <<>>]

\* to_csv(index=False): an empty cell and NaN are both written as nothing
to_csv(df) ==
    [kind |-> "table", cols |-> df.cols,
     rows |-> [i \in 1..Len(df.rows) |->
                 [c \in df.cols |->
                    IF c # "Link" /\ df.rows[i][c] = NaN THEN "" ELSE df.rows[i][c]]]]

\* pd.read_csv raises on a file that is not CSV or has no header columns
ReadFails(file) == file.kind = "unreadable" \/ file.cols = {}

\* pd.read_csv: an empty field of a price or title column is read as NaN
read_csv(file) ==
    [cols |-> file.cols,
     rows |-> [i \in 1..Len(file.rows) |->
                 [c \in file.cols |->
                    IF c # "Link" /\ file.rows[i][c] = "" THEN NaN ELSE file.rows[i][c]]]]

\* the values of column Link, in row order
Links(df) == [i \in 1..Len(df.rows) |-> df.rows[i]["Link"]]

RECURSIVE SelectSeq2(_, _)
\* the elements of s that are in the set keep
SelectSeq2(s, keep) ==
    IF s = <<>> THEN <<>>
    ELSE IF Head(s) \in keep THEN <<Head(s)>> \o SelectSeq2(Tail(s), keep)
         ELSE SelectSeq2(Tail(s), keep)

\* a deduplication that keeps the last occurrence of each key
RECURSIVE OrderedDictFromKeys_KeepLast(_)
OrderedDictFromKeys_KeepLast(s) ==
    IF s = <<>> THEN <<>>
    ELSE LET rest == OrderedDictFromKeys_KeepLast(Tail(s))
         IN IF Head(s) \in Range(rest) THEN rest ELSE <<Head(s)>> \o rest

\* list(OrderedDict.fromkeys(s))
RECURSIVE OrderedDictFromKeys(_)
OrderedDictFromKeys(s) ==
    IF s = <<>> THEN <<>>
    ELSE LET front == OrderedDictFromKeys(SubSeq(s, 1, Len(s) - 1))
             last == s[Len(s)]
         IN IF last \in Range(front) THEN front ELSE Append(front, last)

\* pd.DataFrame(results).drop_duplicates(subset="Link")
RECURSIVE DropDupRows(_)
DropDupRows(rows) ==
    IF rows = <<>> THEN <<>>
    ELSE LET front == DropDupRows(SubSeq(rows, 1, Len(rows) - 1))
             last == rows[Len(rows)]
         IN IF \E i \in 1..Len(front) : front[i]["Link"] = last["Link"]
            THEN front ELSE Append(front, last)

NewDF(res) ==
    IF res = <<>> THEN EmptyDF ELSE [cols |-> AllCols, rows |-> DropDupRows(res)]


----------------------------------------------------------------------------
(* Scraper.py: the comparison with the previous data (lines 224-274) *)

\* row.get(name + suffix, ""): the suffixed column exists when both frames have it
Cell(row, col, a, b) == IF col \in a.cols /\ col \in b.cols THEN row[col] ELSE ""

\* Python's != on cells: NaN differs from everything
CellNeq(x, y) == x = NaN \/ y = NaN \/ x # y

\* Python's truth value of a cell: only the empty string is false
Truthy(x) == x # ""

\* pd.merge(old_df, new_df, on="Link"): the pairs in the order of the left rows
RECURSIVE InnerJoin(_, _)
InnerJoin(left, right) ==
    IF left = <<>> THEN <<>>
    ELSE LET l == Head(left)
             Same(r) == r["Link"] = l["Link"]
             hits == SelectSeq(right, Same)
         IN [i \in 1..Len(hits) |-> [old |-> l, new |-> hits[i]]] \o
            InnerJoin(Tail(left), right)

\* the condition of line 237
ScraperChanged(pair, old_df, new_df) ==
    LET old_sale == Cell(pair.old, "Sale_Price", old_df, new_df)
        new_sale == Cell(pair.new, "Sale_Price", old_df, new_df)
        old_regular == Cell(pair.old, "Regular_Price", old_df, new_df)
        new_regular == Cell(pair.new, "Regular_Price", old_df, new_df)
    IN (CellNeq(old_sale, new_sale) \/ CellNeq(old_regular, new_regular))
       /\ Truthy(old_sale) /\ Truthy(new_sale)

NoLog == [status |-> "none", changed |-> <<>>, new |-> <<>>, removed |-> {}]

Compare(file, new_df, res) ==
    IF file.kind = "absent" THEN [NoLog EXCEPT !.status = "no previous data"]
    ELSE IF ReadFails(file) THEN [NoLog EXCEPT !.status = "failed"]
    ELSE LET old_df == read_csv(file) IN
         IF "Link" \in old_df.cols /\ "Link" \in new_df.cols
         THEN LET merged == InnerJoin(old_df.rows, new_df.rows)
                  Hit(pair) == ScraperChanged(pair, old_df, new_df)
                  old_links == Range(Links(old_df))
                  new_links == Range(Links(new_df))
                  IsNew(item) == item["Link"] \notin old_links
              IN [status |-> "compared",
                  changed |-> SelectSeq(merged, Hit),
                  new |-> SelectSeq(res, IsNew),
                  removed |-> old_links \ new_links]
         ELSE [NoLog EXCEPT !.status = "skipped"]

----------------------------------------------------------------------------
(* Scraper.py: the script *)

NoResponse == [locs |-> <<>>, page |-> NoPage]

CurUrl ==
    CASE pc = "root" -> MAIN_SITEMAP_URL
      [] pc = "sitemaps" -> sitemap_urls[sm_idx]
      [] pc = "products" -> product_urls[p_idx]

\* a call of requests_get_with_retry is in progress
InCall ==
    /\ ret = "pending"
    /\ \/ pc = "root"
       \/ pc = "sitemaps" /\ sm_idx <= Len(sitemap_urls)
       \/ pc = "products" /\ p_idx <= Len(product_urls)

\* entry of requests_get_with_retry
CallStart ==
    /\ attempt' = 1
    /\ gets' = 0
    /\ sleeps' = <<>>
    /\ ret' = "pending"
    /\ response' = NoResponse

\* the locs that contain the marker
LocsWith(locs, marker) ==
    LET Has(loc) == Contains(loc, marker) IN SelectSeq(locs, Has)

\* python scraper.py
StartCrawl(maxRuns) ==
    /\ pc \in {"idle", "exited", "done"}
    /\ runs < maxRuns
    /\ pc' = "root"
    /\ runs' = runs + 1
    /\ exitStatus' = -1
    /\ sitemap_urls' = <<>> /\ sm_idx' = 1
    /\ product_urls' = <<>> /\ p_idx' = 1
    /\ results' = <<>> /\ errors' = <<>>
    /\ fetched' = {} /\ served' = <<>>
    /\ curAtStart' = curFile
    /\ scraperLog' = NoLog
    /\ reported' = <<>>
    /\ CallStart
    /\ UNCHANGED <<curFile, dashVars>>

\* one iteration of the retry loop whose GET succeeds (lines 55-57)
GetOk(body) ==
    /\ InCall
    /\ gets' = gets + 1
    /\ fetched' = fetched \cup {CurUrl}
    /\ ret' = "response"
    /\ response' = body
    /\ UNCHANGED <<pc, runs, exitStatus, attempt, sleeps, sitemap_urls, sm_idx,
                   product_urls, p_idx, results, errors, served, curAtStart,
                   scraperLog, reported, curFile, dashVars>>

\* the retry loop with a backoff that does not grow
GetFail_FlatBackoff ==
    /\ InCall
    /\ gets' = gets + 1
    /\ fetched' = fetched \cup {CurUrl}
    /\ IF attempt = MAX_RETRIES
       THEN ret' = "None" /\ UNCHANGED <<attempt, sleeps>>
       ELSE /\ sleeps' = Append(sleeps, RETRY_BACKOFF)
            /\ attempt' = attempt + 1
            /\ ret' = ret
    /\ UNCHANGED <<pc, runs, exitStatus, response, sitemap_urls, sm_idx,
                   product_urls, p_idx, results, errors, served, curAtStart,
                   scraperLog, reported, curFile, dashVars>>

\* one iteration of the retry loop whose GET raises (lines 58-64)
GetFail ==
    /\ InCall
    /\ gets' = gets + 1
    /\ fetched' = fetched \cup {CurUrl}
    /\ IF attempt = MAX_RETRIES
       THEN ret' = "None" /\ UNCHANGED <<attempt, sleeps>>
       ELSE /\ sleeps' = Append(sleeps, RETRY_BACKOFF * attempt)
            /\ attempt' = attempt + 1
            /\ ret' = ret
    /\ UNCHANGED <<pc, runs, exitStatus, response, sitemap_urls, sm_idx,
                   product_urls, p_idx, results, errors, served, curAtStart,
                   scraperLog, reported, curFile, dashVars>>

\* a root failure that is not fatal: the run goes on with no sitemap
RootFailed_GoesOn ==
    /\ pc = "root" /\ ret = "None"
    /\ sitemap_urls' = <<>>
    /\ pc' = "sitemaps"
    /\ UNCHANGED <<runs, exitStatus, attempt, gets, sleeps, ret, response, sm_idx,
                   product_urls, p_idx, results, errors, fetched, served, curAtStart,
                   scraperLog, reported, curFile, dashVars>>

\* lines 71-73
RootFailed ==
    /\ pc = "root" /\ ret = "None"
    /\ pc' = "exited"
    /\ exitStatus' = 1
    /\ UNCHANGED <<runs, attempt, gets, sleeps, ret, response, sitemap_urls, sm_idx,
                   product_urls, p_idx, results, errors, fetched, served, curAtStart,
                   scraperLog, reported, curFile, dashVars>>

\* lines 75-83
RootParsed ==
    /\ pc = "root" /\ ret = "response"
    /\ sitemap_urls' = LocsWith(response.locs, "sitemap_products")
    /\ sm_idx' = 1
    /\ product_urls' = <<>>
    /\ pc' = "sitemaps"
    /\ CallStart
    /\ UNCHANGED <<runs, exitStatus, p_idx, results, errors, fetched, served,
                   curAtStart, scraperLog, reported, curFile, dashVars>>

\* a sub-sitemap failure that ends the run
SitemapSkipped_Fatal ==
    /\ pc = "sitemaps" /\ ret = "None"
    /\ pc' = "exited"
    /\ exitStatus' = 1
    /\ UNCHANGED <<runs, attempt, gets, sleeps, ret, response, sitemap_urls, sm_idx,
                   product_urls, p_idx, results, errors, fetched, served, curAtStart,
                   scraperLog, reported, curFile, dashVars>>

\* lines 88-90
SitemapSkipped ==
    /\ pc = "sitemaps" /\ ret = "None"
    /\ served' = Append(served, [ok |-> FALSE, locs |-> <<>>])
    /\ sm_idx' = sm_idx + 1
    /\ CallStart
    /\ UNCHANGED <<pc, runs, exitStatus, sitemap_urls, product_urls, p_idx, results,
                   errors, fetched, curAtStart, scraperLog, reported, curFile,
                   dashVars>>

\* lines 92-94
SitemapParsed ==
    /\ pc = "sitemaps" /\ ret = "response"
    /\ product_urls' = product_urls \o LocsWith(response.locs, "/products/")
    /\ served' = Append(served, [ok |-> TRUE, locs |-> response.locs])
    /\ sm_idx' = sm_idx + 1
    /\ CallStart
    /\ UNCHANGED <<pc, runs, exitStatus, sitemap_urls, p_idx, results, errors, fetched,
                   curAtStart, scraperLog, reported, curFile, dashVars>>

\* lines 96-97, after the last sitemap
DedupUrls ==
    /\ pc = "sitemaps" /\ sm_idx > Len(sitemap_urls)
    /\ product_urls' = OrderedDictFromKeys(product_urls)
    /\ pc' = "discovered"
    /\ UNCHANGED <<runs, exitStatus, attempt, gets, sleeps, ret, response, sitemap_urls,
                   sm_idx, p_idx, results, errors, fetched, served, curAtStart,
                   scraperLog, reported, curFile, dashVars>>

\* lines 181-186: the product loop is entered, discovery is over
StartScraping ==
    /\ pc = "discovered"
    /\ results' = <<>> /\ errors' = <<>>
    /\ p_idx' = 1
    /\ served' = <<>>
    /\ pc' = "products"
    /\ CallStart
    /\ UNCHANGED <<runs, exitStatus, sitemap_urls, sm_idx, product_urls, fetched,
                   curAtStart, scraperLog, reported, curFile, dashVars>>

\* a product failure that leaves the loop
ProductFailed_Break ==
    /\ pc = "products" /\ ret = "None"
    /\ errors' = Append(errors, product_urls[p_idx])
    /\ p_idx' = Len(product_urls) + 1
    /\ CallStart
    /\ UNCHANGED <<pc, runs, exitStatus, sitemap_urls, sm_idx, product_urls, results,
                   fetched, served, curAtStart, scraperLog, reported, curFile, dashVars>>

\* lines 189-192
ProductFailed ==
    /\ pc = "products" /\ ret = "None"
    /\ errors' = Append(errors, product_urls[p_idx])
    /\ p_idx' = p_idx + 1
    /\ CallStart
    /\ UNCHANGED <<pc, runs, exitStatus, sitemap_urls, sm_idx, product_urls, results,
                   fetched, served, curAtStart, scraperLog, reported, curFile, dashVars>>

\* lines 194-217
ProductScraped ==
    /\ pc = "products" /\ ret = "response"
    /\ \E prices \in scrape_prices(response.page.containers) :
         results' = Append(results,
                           [Title |-> scrape_title(response.page),
                            Sale_Price |-> prices[1],
                            Regular_Price |-> prices[2],
                            Link |-> product_urls[p_idx]])
    /\ p_idx' = p_idx + 1
    /\ CallStart
    /\ UNCHANGED <<pc, runs, exitStatus, sitemap_urls, sm_idx, product_urls, errors,
                   fetched, served, curAtStart, scraperLog, reported, curFile, dashVars>>

\* lines 219-285, after the last product
Finish ==
    /\ pc = "products" /\ p_idx > Len(product_urls)
    /\ LET new_df == NewDF(results) IN
         /\ scraperLog' = Compare(curFile, new_df, results)
         /\ curFile' = to_csv(new_df)
    /\ reported' = errors
    /\ pc' = "done"
    /\ exitStatus' = 0
    /\ UNCHANGED <<runs, attempt, gets, sleeps, ret, response, sitemap_urls, sm_idx,
                   product_urls, p_idx, results, errors, fetched, served, curAtStart,
                   dashVars>>

----------------------------------------------------------------------------
(* app.py: loading *)

NoEntry == [hit |-> FALSE, df |-> EmptyDF]

\* the body of load_data (lines 23-29)
ReadOrEmpty(file) ==
    IF file.kind = "absent" \/ ReadFails(file) THEN EmptyDF ELSE read_csv(file)

\* load_data under st.cache_data(ttl=600): the return value of a call made less
\* than ten minutes ago is returned again, otherwise the body runs
load_data(file, entry, fresh) ==
    IF entry.hit /\ fresh THEN entry.df ELSE ReadOrEmpty(file)

\* df['Link'] = df['Link'].str.lower().str.rstrip('/')
NormLinks(df) ==
    [df EXCEPT !.rows = [i \in 1..Len(df.rows) |->
                           [df.rows[i] EXCEPT !["Link"] = NormLink(@)]]]

\* lines 55-59: a missing price column is added as "", an existing one has its NaN
\* replaced by ""
FillPrices(df) ==
    [cols |-> df.cols \cup PriceCols,
     rows |-> [i \in 1..Len(df.rows) |->
                 [c \in df.cols \cup PriceCols |->
                    IF c \in PriceCols
                    THEN IF c \notin df.cols \/ df.rows[i][c] = NaN THEN "" ELSE df.rows[i][c]
                    ELSE df.rows[i][c]]]]

\* df[cols]
Project(df, cols) ==
    [cols |-> cols,
     rows |-> [i \in 1..Len(df.rows) |-> [c \in cols |-> df.rows[i][c]]]]

----------------------------------------------------------------------------
(* app.py: the comparison *)

None == -1
NanFloat == -2

\* safe_float: float() of the cell's text rounded to cents; float("nan") is a
\* float and is returned, a text that is no number gives None
safe_float(p) ==
    CASE p = NaN -> NanFloat
      [] p \in {"$0.00", "$8.00", "$10", "$10.00", "$15.00", "$20.00", "$1234.50"} ->
           PriceCents(p)
      [] OTHER -> None

\* Python's != on floats
FloatNeq(x, y) == x = NanFloat \/ y = NanFloat \/ x # y

\* needed_cols of the deployed script (app.py line 98, Final Final/app.py line 89)
needed_cols(script) ==
    IF script = "app.py" THEN {"Link", "Sale_Price", "Regular_Price", "Title"}
    ELSE {"Link", "Sale_Price", "Regular_Price"}

\* prev_prices (lines 98-105)
PrevPrices(prev_df, script) ==
    IF needed_cols(script) \subseteq prev_df.cols
    THEN Project(prev_df, needed_cols(script))
    ELSE [cols |-> needed_cols(script),
          rows |-> [i \in 1..Len(prev_df.rows) |->
                      [c \in needed_cols(script) |->
                         IF c = "Link" THEN prev_df.rows[i]["Link"] ELSE ""]]]

NaNRow == [c \in PriceCols |-> NaN]
BlankRow == [c \in PriceCols |-> ""]

\* pd.merge(df, prev_prices, on='Link', how='left', suffixes=('', '_old')): every
\* row of df with each row of prev_prices of the same Link, or with NaN
RECURSIVE LeftJoin(_, _)
LeftJoin(left, right) ==
    IF left = <<>> THEN <<>>
    ELSE LET l == Head(left)
             Same(r) == r["Link"] = l["Link"]
             hits == SelectSeq(right, Same)
         IN (IF hits = <<>> THEN <<[cur |-> l, old |-> NaNRow, matched |-> FALSE]>>
             ELSE [i \in 1..Len(hits) |->
                     [cur |-> l,
                      old |-> [c \in PriceCols |-> hits[i][c]],
                      matched |-> TRUE]])
            \o LeftJoin(Tail(left), right)

\* a join without a baseline that leaves the old columns unset
NoBaselineJoin_Unset(df) ==
    [i \in 1..Len(df.rows) |-> [cur |-> df.rows[i], old |-> NaNRow, matched |-> FALSE]]

\* lines 107-111: without a baseline the old columns are ""
NoBaselineJoin(df) ==
    [i \in 1..Len(df.rows) |-> [cur |-> df.rows[i], old |-> BlankRow, matched |-> FALSE]]

\* one entry of changes: <<old, new>> in cents when the field is reported
FieldChange(new, old) ==
    IF new # None /\ old # None /\ FloatNeq(new, old) THEN <<old, new>> ELSE <<>>

\* format_price_changes (lines 127-137)
format_price_changes(row) ==
    [Link |-> row.cur["Link"],
     regular |-> FieldChange(safe_float(row.cur["Regular_Price"]),
                             safe_float(row.old["Regular_Price"])),
     sale |-> FieldChange(safe_float(row.cur["Sale_Price"]),
                          safe_float(row.old["Sale_Price"]))]

\* merged['Price Changes'] != "-"
HasChange(change) == change.regular # <<>> \/ change.sale # <<>>

\* Final Final/app.py, price_to_float (lines 138-144)
price_to_float(p) ==
    IF p = "" \/ p = NaN \/ safe_float(p) = None THEN 0 ELSE safe_float(p)

\* the sidebar's default price range, in cents (Final Final/app.py lines 135-136)
min_price == 0
max_price == 10000000

\* the price-change table of the deployed script
PriceChanges(merged, show_price_changes, script) ==
    LET all == [i \in 1..Len(merged) |-> format_price_changes(merged[i])]
        idx == {i \in 1..Len(merged) :
                  /\ HasChange(all[i])
                  /\ script # "app.py" =>
                       /\ show_price_changes
                       /\ price_to_float(merged[i].cur["Sale_Price"]) >= min_price
                       /\ price_to_float(merged[i].cur["Sale_Price"]) <= max_price}
        RECURSIVE Pick(_)
        Pick(i) == IF i > Len(merged) THEN <<>>
                   ELSE (IF i \in idx THEN <<all[i]>> ELSE <<>>) \o Pick(i + 1)
    IN Pick(1)

\* new_products (lines 160-164), as the Links of its rows
NewProducts(merged, prev_df) ==
    IF ~IsEmpty(prev_df) /\ "Link" \in prev_df.cols
    THEN LET old_links == Range(Links(prev_df))
             all == [i \in 1..Len(merged) |-> merged[i].cur["Link"]]
         IN SelectSeq2(all, Range(all) \ old_links)
    ELSE [i \in 1..Len(merged) |-> merged[i].cur["Link"]]

NoView == [status |-> "none", baseline |-> FALSE, df |-> EmptyDF, prev |-> EmptyDF,
           merged |-> <<>>, changes |-> <<>>, new |-> <<>>]

\* one run of the script from line 31 to line 178, on the loaded frames
Render(df0, prev0, script) ==
    IF IsEmpty(df0) THEN [NoView EXCEPT !.status = "no data"]
    ELSE IF "Link" \notin df0.cols THEN [NoView EXCEPT !.status = "no Link column"]
    ELSE LET df == FillPrices(NormLinks(df0))
             prev1 == IF ~IsEmpty(prev0) /\ "Link" \in prev0.cols
                      THEN NormLinks(prev0) ELSE EmptyDF
             prev_df == IF IsEmpty(prev1) THEN prev1 ELSE FillPrices(prev1)
             show_price_changes == ~(IsEmpty(prev_df) \/ "Link" \notin prev_df.cols)
             merged == IF show_price_changes
                       THEN LeftJoin(df.rows, PrevPrices(prev_df, script).rows)
                       ELSE NoBaselineJoin(df)
         IN [status |-> "shown",
             baseline |-> show_price_changes,
             df |-> df,
             prev |-> prev_df,
             merged |-> merged,
             changes |-> PriceChanges(merged, show_price_changes, script),
             new |-> NewProducts(merged, prev_df)]

----------------------------------------------------------------------------
(* app.py: the script *)

CrawlerIdle == pc \in {"idle", "exited", "done"}

\* a run of the dashboard script without a click on the save button; freshCur and
\* freshPrev tell whether the cached entries are younger than the ttl
DashboardRun(freshCur, freshPrev) ==
    /\ CrawlerIdle
    /\ LET df0 == load_data(curFile, cache.cur, freshCur)
           prev0 == load_data(prevFile, cache.prev, freshPrev)
       IN /\ cache' = [cur |-> [hit |-> TRUE, df |-> df0],
                       prev |-> [hit |-> TRUE, df |-> prev0]]
          /\ view' = Render(df0, prev0, app)
    /\ UNCHANGED <<crawlVars, prevFile, app, curAtSave>>

\* the run of the script that a click on the save button starts (lines 180-182):
\* the button exists when the last run reached it, and is reached again unless
\* the script stops at line 36 or 48
SaveBaseline(freshCur, freshPrev) ==
    /\ CrawlerIdle
    /\ view.status = "shown"
    /\ LET df0 == load_data(curFile, cache.cur, freshCur)
           prev0 == load_data(prevFile, cache.prev, freshPrev)
           shown == Render(df0, prev0, app)
       IN /\ cache' = [cur |-> [hit |-> TRUE, df |-> df0],
                       prev |-> [hit |-> TRUE, df |-> prev0]]
          /\ view' = shown
          /\ IF shown.status = "shown"
             THEN /\ prevFile' = to_csv(Project(shown.df, {"Link", "Sale_Price", "Regular_Price"}))
                  /\ curAtSave' = curFile
             ELSE UNCHANGED <<prevFile, curAtSave>>
    /\ UNCHANGED <<crawlVars, app>>

----------------------------------------------------------------------------
(* The site, as the crawler can see it *)

ProductLocs == {Home, U1, U2}
Pages == {Page8, Page10, PageX, Page15}

RootBodies == {<<>>, <<SM1>>, <<SM1, SM1>>, <<SM1, SMPages, SM2>>}
SitemapBodies == SeqsUpTo(ProductLocs, MaxLocs)

\* the responses the site can give to the request under way
Body(rootBodies, sitemapBodies, pages) ==
    CASE pc = "root" -> {[locs |-> b, page |-> NoPage] : b \in rootBodies}
      [] pc = "sitemaps" -> {[locs |-> b, page |-> NoPage] : b \in sitemapBodies}
      [] pc = "products" -> {[locs |-> <<>>, page |-> p] : p \in pages}
      [] OTHER -> {}

\* a baseline file found at installation: none, one that is not CSV, one with a
\* header and no row, one without a Link column
InitialBaselines ==
    {Absent, Unreadable,
     [kind |-> "table", cols |-> {"Link", "Sale_Price", "Regular_Price"}, rows |-> <<>>],
     [kind |-> "table", cols |-> {"Sale_Price"}, rows |-> <<[Sale_Price |-> "$8.00"]>>]}

Init ==
    /\ pc = "idle" /\ runs = 0 /\ exitStatus = -1
    /\ attempt = 1 /\ gets = 0 /\ sleeps = <<>> /\ ret = "pending"
    /\ response = NoResponse
    /\ sitemap_urls = <<>> /\ sm_idx = 1
    /\ product_urls = <<>> /\ p_idx = 1
    /\ results = <<>> /\ errors = <<>>
    /\ fetched = {} /\ served = <<>>
    /\ curAtStart = Absent
    /\ scraperLog = NoLog
    /\ reported = <<>>
    /\ curFile = Absent
    /\ prevFile \in InitialBaselines
    /\ app \in {"app.py", "Final Final/app.py"}
    /\ cache = [cur |-> NoEntry, prev |-> NoEntry]
    /\ view = NoView
    /\ curAtSave = Absent

\* one run of the crawler process
NextCrawl ==
    \/ StartCrawl(1)
    \/ \E body \in Body(RootBodies, SitemapBodies, Pages) : GetOk(body)
    \/ GetFail
    \/ RootFailed
    \/ RootParsed
    \/ SitemapSkipped
    \/ SitemapParsed
    \/ DedupUrls
    \/ StartScraping
    \/ ProductFailed
    \/ ProductScraped
    \/ Finish

SpecCrawl == Init /\ [][NextCrawl]_vars

\* a small site: one product sitemap, one or two products
SmallRootBodies == {<<SMPages, SM1>>}
SmallSitemapBodies == {<<Home, U1>>, <<U1C, U1S>>, <<U1, U2>>}
SmallPages == {Page8, Page10, PageX}

CrawlStep ==
    \/ \E body \in Body(SmallRootBodies, SmallSitemapBodies, SmallPages) : GetOk(body)
    \/ GetFail
    \/ RootFailed
    \/ RootParsed
    \/ SitemapSkipped
    \/ SitemapParsed
    \/ DedupUrls
    \/ StartScraping
    \/ ProductFailed
    \/ ProductScraped
    \/ Finish

\* crawler runs, dashboard runs and save clicks in any order
Next ==
    \/ StartCrawl(MaxRuns)
    \/ CrawlStep
    \/ \E freshCur, freshPrev \in BOOLEAN : DashboardRun(freshCur, freshPrev)
    \/ \E freshCur, freshPrev \in BOOLEAN : SaveBaseline(freshCur, freshPrev)

Spec == Init /\ [][Next]_vars

\* crawler runs one after the other, the dashboard never opened
NextRuns == StartCrawl(MaxRuns) \/ CrawlStep

SpecRuns == Init /\ [][NextRuns]_vars

\* the crawler is a sequential script: it goes on until the process ends
FairCrawl == Init /\ [][StartCrawl(1) \/ CrawlStep]_vars /\ WF_vars(StartCrawl(1) \/ CrawlStep)

----------------------------------------------------------------------------
(* scrape_prices on its own *)

MaxFrags == 4       \* text fragments of the price container under test

Fragments == {"$20.00", "$0.00", "$15.00", "$10.00", "Sold out"}

\* the price containers that can stand before and behind the one under test
OtherContainers ==
    {<<>>, <<"Sold out", "$0.00">>, <<"Sale $8.00">>, <<"$10", "$15.00", "$10.00">>,
     <<"$10.00", "$10">>, <<"$1,234.50", "$20.00">>}

\* soup.select(...) of a product page: at most one container before and one
\* behind a container of up to MaxFrags fragments, or no container at all
PriceContainers ==
    {<<>>} \cup
    {before \o <<c>> \o behind :
        before \in SeqsUpTo(OtherContainers, 1),
        c \in SeqsUpTo(Fragments, MaxFrags),
        behind \in SeqsUpTo(OtherContainers, 1)}

\* a product page has been fetched and parsed
InitPrices ==
    /\ pc = "soup" /\ runs = 1 /\ exitStatus = -1
    /\ attempt = 1 /\ gets = 1 /\ sleeps = <<>> /\ ret = "response"
    /\ \E containers \in PriceContainers :
         response = [locs |-> <<>>, page |-> [title |-> "Ring", containers |-> containers]]
    /\ sitemap_urls = <<SM1>> /\ sm_idx = 2
    /\ product_urls = <<U1>> /\ p_idx = 1
    /\ results = <<>> /\ errors = <<>>
    /\ fetched = {MAIN_SITEMAP_URL, SM1, U1} /\ served = <<>>
    /\ curAtStart = Absent
    /\ scraperLog = NoLog
    /\ reported = <<>>
    /\ curFile = Absent
    /\ prevFile = Absent
    /\ app = "app.py"
    /\ cache = [cur |-> NoEntry, prev |-> NoEntry]
    /\ view = NoView
    /\ curAtSave = Absent

\* line 198 and the record of lines 201-209: the call of scrape_prices on the
\* parsed page
ScrapePrices ==
    /\ pc = "soup"
    /\ \E prices \in scrape_prices(response.page.containers) :
         results' = <<[Title |-> scrape_title(response.page),
                       Sale_Price |-> prices[1],
                       Regular_Price |-> prices[2],
                       Link |-> product_urls[p_idx]]>>
    /\ pc' = "prices"
    /\ UNCHANGED <<runs, exitStatus, attempt, gets, sleeps, ret, response, sitemap_urls,
                   sm_idx, product_urls, p_idx, errors, fetched, served, curAtStart,
                   scraperLog, reported, curFile, dashVars>>

SpecPrices == InitPrices /\ [][ScrapePrices]_vars

----------------------------------------------------------------------------
(* Properties of the crawler *)

Backoffs(n) == [k \in 1..n |-> RETRY_BACKOFF * k]

\* C1: a call makes at most MAX_RETRIES requests; it returns a response at the
\* first success, after a sleep of RETRY_BACKOFF * k behind each of the k failed
\* attempts before it; it returns None only after MAX_RETRIES failed attempts,
\* with no sleep behind the last one.
RetryContract ==
    /\ gets <= MAX_RETRIES
    /\ ret = "pending" => gets < MAX_RETRIES /\ attempt = gets + 1 /\ sleeps = Backoffs(gets)
    /\ ret = "response" => sleeps = Backoffs(gets - 1)
    /\ ret = "None" => gets = MAX_RETRIES /\ sleeps = Backoffs(MAX_RETRIES - 1)

RetryGivesUp == ret = "None" /\ gets = MAX_RETRIES /\ sleeps = <<2, 4>>

\* C2: in the product loop every URL handled so far is either in results (one
\* record) or in errors, never both, each in discovery order; a failure does not
\* end the loop.
LoopDone == pc = "products" /\ p_idx > Len(product_urls)

EveryUrlAccounted ==
    pc \in {"products", "done"} =>
        LET handled == SubSeq(product_urls, 1, p_idx - 1)
            scraped == [i \in 1..Len(results) |-> results[i]["Link"]]
        IN /\ p_idx <= Len(product_urls) + 1
           /\ Range(scraped) \cap Range(errors) = {}
           /\ Range(scraped) \cup Range(errors) = Range(handled)
           /\ scraped = SelectSeq2(handled, Range(scraped))
           /\ errors = SelectSeq2(handled, Range(errors))
           /\ (pc = "done" => p_idx = Len(product_urls) + 1)

FailureThenSuccess ==
    /\ LoopDone
    /\ Len(product_urls) >= 2
    /\ errors = <<product_urls[1]>>
    /\ Len(results) = Len(product_urls) - 1

\* C3 as stated: every crawler process that ends has written the snapshot of
\* its results and reported its error list.
EveryRunWritesSnapshot ==
    pc \in {"exited", "done"} =>
        /\ curFile = to_csv(NewDF(results))
        /\ reported = errors

\* C3 amended: once the root sitemap has been fetched, the run goes on to the
\* end, writes the snapshot of its results and reports its error list.
SnapshotWritten ==
    /\ pc = "done"
    /\ exitStatus = 0
    /\ curFile = to_csv(NewDF(results))
    /\ reported = errors

CrawlCompletes == (pc = "sitemaps") ~> SnapshotWritten

EmptySnapshotWritten ==
    /\ SnapshotWritten
    /\ product_urls # <<>>
    /\ results = <<>>
    /\ reported = product_urls

\* C5: discovery gives the product URLs of the sub-sitemaps that were returned,
\* each once, in the order of their first occurrence; every sub-sitemap of the
\* list is requested, whether or not an earlier one failed.
RECURSIVE ServedLocs(_)
ServedLocs(entries) ==
    IF entries = <<>> THEN <<>>
    ELSE Head(entries).locs \o ServedLocs(Tail(entries))

FirstIndex(s, x) == CHOOSE i \in 1..Len(s) : s[i] = x /\ \A j \in 1..(i - 1) : s[j] # x

DiscoveryResult ==
    pc = "discovered" =>
        LET all == ServedLocs(served)
            raw == SelectSeq2(all, {u \in Range(all) : "/products/" \in Range(u)})
        IN /\ Len(served) = Len(sitemap_urls)
           /\ Range(product_urls) = Range(raw)
           /\ \A i, j \in 1..Len(product_urls) :
                i < j => /\ product_urls[i] # product_urls[j]
                         /\ FirstIndex(raw, product_urls[i]) < FirstIndex(raw, product_urls[j])

DiscoveryDedups ==
    /\ pc = "discovered"
    /\ Len(served) = 2
    /\ ~served[1].ok
    /\ served[2].locs = <<U1, U2, U1>>
    /\ product_urls = <<U1, U2>>

----------------------------------------------------------------------------
(* Properties of the whole system *)

\* C4: when the root sitemap cannot be fetched the process ends at once with
\* exit status 1, having requested nothing but the root sitemap and having left
\* nidhi_prices.csv as it was.
RootFailureIsFatal ==
    /\ [](pc = "exited" => /\ exitStatus = 1
                           /\ fetched = {MAIN_SITEMAP_URL}
                           /\ curFile = curAtStart)
    /\ [][(pc = "root" /\ ret = "None" /\ crawlVars' # crawlVars)
            => /\ pc' = "exited"
               /\ exitStatus' = 1
               /\ fetched' = fetched
               /\ curFile' = curFile]_vars

ExitedWithSnapshotKept ==
    /\ pc = "exited"
    /\ exitStatus = 1
    /\ runs = 2
    /\ curFile.kind = "table"
    /\ curFile.rows # <<>>

\* the baseline that a save click made from a given nidhi_prices.csv holds
BaselineOf(file) ==
    LET df == IF file.kind = "absent" \/ file.kind = "unreadable" \/ file.cols = {}
              THEN [cols |-> AllCols, rows |-> <<>>]
              ELSE [cols |-> file.cols, rows |-> file.rows]
    IN [kind |-> "table",
        cols |-> {"Link", "Sale_Price", "Regular_Price"},
        rows |-> [i \in 1..Len(df.rows) |->
                    [Link |-> RStripSlash(StrLower(df.rows[i]["Link"])),
                     Sale_Price |-> df.rows[i]["Sale_Price"],
                     Regular_Price |-> df.rows[i]["Regular_Price"]]]]

\* C6 as stated: once the save button has been clicked, the baseline file holds
\* the current snapshot as it was at the last click (its links normalised, its
\* prices and links only).
BaselineIsSnapshotAtSave ==
    curAtSave.kind # "absent" => prevFile = BaselineOf(curAtSave)

\* C7 as stated: nidhi_prices.csv has at most one record per canonical link, and
\* after a completed run it holds the records of that run and no other.
CanonicalLinkUnique ==
    /\ \A i, j \in 1..Len(curFile.rows) :
         i < j => NormLink(curFile.rows[i]["Link"]) # NormLink(curFile.rows[j]["Link"])
    /\ pc = "done" =>
         /\ Len(curFile.rows) = Len(results)
         /\ \A i \in 1..Len(results) : curFile.rows[i] = results[i]

\* a cell that holds a price
Parseable(cell) == cell \notin {"", NaN}

\* both sides hold a price for the field and the two prices differ
FieldDiffers(cur, old, field) ==
    /\ Parseable(cur[field])
    /\ Parseable(old[field])
    /\ PriceCents(cur[field]) # PriceCents(old[field])

PairDiffers(cur, old) ==
    FieldDiffers(cur, old, "Sale_Price") \/ FieldDiffers(cur, old, "Regular_Price")

\* the dashboard's table of price changes against the frames it compared
DashboardDiffExact ==
    (view.status = "shown" /\ view.baseline) =>
        /\ \A d \in Range(view.df.rows) :
             (\E q \in Range(view.prev.rows) : q["Link"] = d["Link"]) =>
                 ((\E c \in Range(view.changes) : c.Link = d["Link"])
                  <=> \E d2 \in Range(view.df.rows), q \in Range(view.prev.rows) :
                         d2["Link"] = d["Link"] /\ q["Link"] = d["Link"] /\ PairDiffers(d2, q))
        /\ \A k \in 1..Len(view.merged) :
             view.merged[k].matched =>
                 LET c == format_price_changes(view.merged[k])
                     d == view.merged[k].cur
                 IN /\ c.sale # <<>> =>
                         \E q \in Range(view.prev.rows) :
                            q["Link"] = d["Link"] /\ FieldDiffers(d, q, "Sale_Price")
                    /\ c.regular # <<>> =>
                         \E q \in Range(view.prev.rows) :
                            q["Link"] = d["Link"] /\ FieldDiffers(d, q, "Regular_Price")

\* the crawler's log of price changes against the files it compared
ScraperDiffExact ==
    scraperLog.status = "compared" =>
        LET old_df == read_csv(curAtStart)
            new_df == NewDF(results)
        IN \A o \in Range(old_df.rows), n \in Range(new_df.rows) :
              o["Link"] = n["Link"] =>
                  ((\E c \in Range(scraperLog.changed) : c.new["Link"] = n["Link"])
                   <=> PairDiffers(n, o))

\* C8 as stated: for a product in both snapshots a price change is reported
\* exactly when the sale price or the regular price is parseable on both sides
\* and differs; a field without a price on either side is never reported.
PriceChangeExact == DashboardDiffExact /\ ScraperDiffExact

P1 == <<"/products/", "p1">>

\* the baseline was saved with /p1 at sale $8.00, regular $10.00, and the run
\* that ended since stored /p1 at $10.00 and $10.00
SaleRaised ==
    /\ curAtSave.kind # "absent"
    /\ pc = "done"
    /\ curFile # curAtSave
    /\ \E q \in Range(prevFile.rows) :
         q["Link"] = P1 /\ q["Sale_Price"] = "$8.00" /\ q["Regular_Price"] = "$10.00"
    /\ \A q \in Range(prevFile.rows) : q["Link"] = P1 => q["Sale_Price"] = "$8.00"
    /\ \E d \in Range(curFile.rows) : NormLink(d["Link"]) = P1
    /\ \A d \in Range(curFile.rows) :
         NormLink(d["Link"]) = P1 =>
             d["Sale_Price"] = "$10.00" /\ d["Regular_Price"] = "$10.00"
    /\ Cardinality({i \in 1..Len(curFile.rows) : NormLink(curFile.rows[i]["Link"]) = P1}) = 1
    /\ Cardinality({i \in 1..Len(prevFile.rows) : prevFile.rows[i]["Link"] = P1}) = 1

\* C9 as stated: in that situation the next run of the dashboard reports one
\* price change for /p1, its sale price from 8.00 to 10.00, and none of its
\* regular price.
SaleChangeReported ==
    [][(SaleRaised /\ \E freshCur, freshPrev \in BOOLEAN : DashboardRun(freshCur, freshPrev))
         => LET forP1 == {c \in Range(view'.changes) : c.Link = P1}
            IN forP1 = {[Link |-> P1, regular |-> <<>>, sale |-> <<800, 1000>>]}]_vars

\* the baseline file is absent, unreadable, without a row or without a Link column
NoBaseline ==
    \/ prevFile.kind \in {"absent", "unreadable"}
    \/ prevFile.rows = <<>>
    \/ "Link" \notin prevFile.cols

\* C10: without a baseline the dashboard lists every product it shows as new
\* and reports no price change.
NoBaselineAllNew ==
    (view.status = "shown" /\ NoBaseline) =>
        /\ ~view.baseline
        /\ view.new = Links(view.df)
        /\ view.changes = <<>>

AllNewShown ==
    /\ view.status = "shown"
    /\ prevFile.kind = "unreadable"
    /\ Len(view.new) = 2
    /\ \E d \in Range(view.df.rows) : d["Sale_Price"] # ""
    /\ view.changes = <<>>

----------------------------------------------------------------------------
(* Properties of the two diffs *)

DiffCols == {"Link", "Sale_Price", "Regular_Price"}

\* the dashboard compared two frames with the same links and prices, row by row
DashboardComparedIdentical ==
    /\ view.status = "shown"
    /\ view.baseline
    /\ Project(view.df, DiffCols).rows = Project(view.prev, DiffCols).rows

DashboardIdenticalNoDiff ==
    DashboardComparedIdentical => view.changes = <<>> /\ view.new = <<>>

\* the crawler compared its results with a file that held the same snapshot
ScraperComparedIdentical ==
    /\ scraperLog.status = "compared"
    /\ curAtStart = to_csv(NewDF(results))

ScraperIdenticalNoDiff ==
    ScraperComparedIdentical =>
        /\ scraperLog.changed = <<>>
        /\ scraperLog.new = <<>>
        /\ scraperLog.removed = {}

\* the baseline file holds the current snapshot, as a save click leaves it
BaselineIsCurrent == curFile.kind = "table" /\ prevFile = BaselineOf(curFile)

AfterSaveNoDiff ==
    [][(BaselineIsCurrent /\ \E freshCur, freshPrev \in BOOLEAN : DashboardRun(freshCur, freshPrev))
         => view'.changes = <<>> /\ view'.new = <<>>]_vars

\* C11 as stated: a diff of two identical snapshots reports no price change, no
\* new product and no removed product, in the crawler and in the dashboard, and
\* so does the dashboard run that follows a save click with no crawl in between.
IdenticalSnapshotsNoDiff ==
    /\ [](DashboardIdenticalNoDiff /\ ScraperIdenticalNoDiff)
    /\ AfterSaveNoDiff

\* two links that differ at most by letter case and trailing slashes
SameProduct(a, b) == NormLink(a) = NormLink(b)

\* the dashboard joins every current record with the baseline records of the
\* same product and does not list it as new
DashboardMatchesNormalized ==
    (view.status = "shown" /\ view.baseline) =>
        \A d \in Range(cache.cur.df.rows), q \in Range(cache.prev.df.rows) :
            SameProduct(d["Link"], q["Link"]) =>
                /\ \E k \in 1..Len(view.merged) :
                      /\ view.merged[k].matched
                      /\ view.merged[k].cur["Link"] = NormLink(d["Link"])
                /\ NormLink(d["Link"]) \notin Range(view.new)

\* the crawler joins every new record with the old records of the same product
\* and logs it neither as new nor as removed
ScraperMatchesNormalized ==
    scraperLog.status = "compared" =>
        LET old_df == read_csv(curAtStart)
            new_df == NewDF(results)
        IN \A o \in Range(old_df.rows), n \in Range(new_df.rows) :
              SameProduct(o["Link"], n["Link"]) =>
                  /\ [old |-> o, new |-> n] \in Range(InnerJoin(old_df.rows, new_df.rows))
                  /\ \A item \in Range(scraperLog.new) : item["Link"] # n["Link"]
                  /\ o["Link"] \notin scraperLog.removed

\* C12 as stated: in the dashboard's diff and in the crawler's diff a product
\* whose link differs only by a trailing slash or by letter case between the two
\* snapshots is joined for the price comparison and is neither new nor removed.
NormalizedLinksMatch == DashboardMatchesNormalized /\ ScraperMatchesNormalized

\* the keys of a snapshot: the canonical links of its records
Keys(df) == IF "Link" \in df.cols THEN {NormLink(df.rows[i]["Link"]) : i \in 1..Len(df.rows)} ELSE {}

\* the keys the crawler logged as new
ScraperNewKeys == {NormLink(scraperLog.new[i]["Link"]) : i \in 1..Len(scraperLog.new)}

\* the keys the crawler logged as removed
ScraperRemovedKeys == {NormLink(u) : u \in scraperLog.removed}

ScraperSetsExact ==
    scraperLog.status = "compared" =>
        LET prev == Keys(read_csv(curAtStart))
            cur == Keys(NewDF(results))
        IN /\ ScraperNewKeys = cur \ prev
           /\ ScraperRemovedKeys = prev \ cur
           /\ ScraperNewKeys \cap ScraperRemovedKeys = {}
           /\ (cur \cap prev) \cap (ScraperNewKeys \cup ScraperRemovedKeys) = {}

DashboardNewExact ==
    view.status = "shown" =>
        LET prev == Keys(cache.prev.df)
            cur == Keys(cache.cur.df)
        IN /\ Range(view.new) = cur \ prev
           /\ (cur \cap prev) \cap Range(view.new) = {}

\* C13 as stated: the removed products of a diff are the keys of the previous
\* snapshot that the current one lacks, the new products are the keys of the
\* current snapshot that the previous one lacks; no key is both, and no key of
\* both snapshots is either.
NewAndRemovedExact == ScraperSetsExact /\ DashboardNewExact

----------------------------------------------------------------------------
(* Properties of scrape_prices *)

\* the distinct prices of a container: its fragments normalised, without the
\* empty results and without "$0.00"
Usable(container) ==
    {normalize_price(container[i]) : i \in 1..Len(container)} \ {"", "$0.00"}

\* C14: both prices are empty when no container has a usable price; otherwise
\* the first container that has one decides: its only price is both the sale
\* and the regular price, and of two or more the sale price is one of the
\* numerically smallest and the regular price one of the numerically largest.
ScrapePricesContract ==
    pc = "prices" =>
        LET containers == response.page.containers
            sale == results[1]["Sale_Price"]
            regular == results[1]["Regular_Price"]
            with == {k \in 1..Len(containers) : Usable(containers[k]) # {}}
        IN IF with = {}
           THEN sale = "" /\ regular = ""
           ELSE LET first == CHOOSE k \in with : \A j \in with : k <= j
                    ps == Usable(containers[first])
                IN /\ sale \in ps /\ regular \in ps
                   /\ \A p \in ps : /\ PriceCents(sale) <= PriceCents(p)
                                    /\ PriceCents(p) <= PriceCents(regular)
                   /\ Cardinality(ps) = 1 => sale = regular

\* the example of the claim, behind a container without a price and before one
\* with a lower price
ScrapedMinAndMax ==
    /\ pc = "prices"
    /\ response.page.containers =
         <<<<"Sold out", "$0.00">>, <<"$20.00", "$20.00", "$0.00", "$15.00">>,
           <<"Sale $8.00">>>>
    /\ results[1]["Sale_Price"] = "$15.00"
    /\ results[1]["Regular_Price"] = "$20.00"

=============================================================================
